---- MODULE Spec2Model ----
(***************************************************************************)
(* numkit.observables: QuantityWithError, a number with a Gaussian error   *)
(* and an identity (qid) that decides between correlated and independent   *)
(* error propagation.                                                      *)
(*                                                                         *)
(* The heap maps the address of every live QuantityWithError object to its *)
(* fields.  id(self) is the address of the object, so a token minted by    *)
(* the constructor is the address the allocator gave to the new object:    *)
(* any address that no live object occupies.                               *)
(*                                                                         *)
(* Numbers: values are integers; a variance is an exact rational <<n, d>>  *)
(* in lowest terms, or NonFinite (<<1, 0>>) for the nan and inf that       *)
(* numpy.log produces for a base <= 0.  The model stores the square of     *)
(* every error, which is what the constructor keeps (error**2).  A call is  *)
(* modelled where its result is such a number: a quotient of values is     *)
(* exact, an exponent is a natural number, and the error of a same-identity*)
(* sum or of a power is rational.                                          *)
(***************************************************************************)
EXTENDS Integers, FiniteSets, Sequences, TLC

\* heap:      address -> fields of the live QuantityWithError at that address
\* generated: the addresses that id(self) has returned as a token so far
\* last:      the last call, its operands and what it returned
\* steps:     the number of calls made
VARIABLES heap, generated, last, steps

vars == <<heap, generated, last, steps>>

(* ---------------------------------------------------------------- bounds *)
\* number of addresses the allocator hands out
MaxAddr == 6
\* number of calls in one run of Spec
MaxSteps == 3
\* largest magnitude of a value
MaxVal == 6
\* largest numerator and denominator of a variance
MaxVar == 16

Addr == 1..MaxAddr

(* ------------------------------------------------------ exact arithmetic *)
Abs(n) == IF n < 0 THEN -n ELSE n

RECURSIVE GCD(_, _)
GCD(a, b) == IF b = 0 THEN a ELSE GCD(b, a % b)

Zero == <<0, 1>>
NonFinite == <<1, 0>>

IsFinite(x) == x[2] # 0

\* the rational n/d (d > 0) in lowest terms
Frac(n, d) == LET g == GCD(Abs(n), d) IN <<n \div g, d \div g>>

RAdd(x, y) ==
    IF IsFinite(x) /\ IsFinite(y)
    THEN Frac(x[1] * y[2] + y[1] * x[2], x[2] * y[2])
    ELSE NonFinite

RMul(x, y) ==
    IF IsFinite(x) /\ IsFinite(y)
    THEN Frac(x[1] * y[1], x[2] * y[2])
    ELSE NonFinite

\* x * n / d for integers n >= 0, d > 0
RScale(x, n, d) == RMul(x, Frac(n, d))

IsSquare(n) == \E k \in 0..n : k * k = n
ISqrt(n) == CHOOSE k \in 0..n : k * k = n

\* the error sqrt(x) of a variance x is rational
HasRoot(x) == IsFinite(x) => IsSquare(x[1]) /\ IsSquare(x[2])

\* a same-identity sum that adds the errors in quadrature
SqOfSumQuadrature(x, y) == RAdd(x, y)

\* (sqrt(x) + sqrt(y))**2 and (sqrt(x) - sqrt(y))**2, where sqrt(x*y) is rational
SqOfSum(x, y) ==
    IF IsFinite(x) /\ IsFinite(y)
    THEN LET p == RMul(x, y)
             r == Frac(2 * ISqrt(p[1]), ISqrt(p[2]))
         IN  RAdd(RAdd(x, y), r)
    ELSE NonFinite

SqOfDiff(x, y) ==
    IF IsFinite(x) /\ IsFinite(y)
    THEN LET p == RMul(x, y)
             r == Frac(-2 * ISqrt(p[1]), ISqrt(p[2]))
         IN  RAdd(RAdd(x, y), r)
    ELSE NonFinite

RECURSIVE IPow(_, _)
IPow(x, y) == IF y = 0 THEN 1 ELSE x * IPow(x, y - 1)

(* ------------------------------------------------------------ identities *)
\* A token of an identity set.  id(self) is an integer; __pow__ also puts
\* whole QIDs (frozensets) and None into the list it passes as qid.
Atom(n) == [id |-> n, sub |-> {}]
SetTok(S) == [id |-> 0, sub |-> S]
NoneTok == [id |-> -1, sub |-> {}]

\* The Python values a qid argument takes: None, a QID, a list, an int.
PyNone == [kind |-> "None", elems |-> {}]
PySet(S) == [kind |-> "QID", elems |-> S]
PyList(S) == [kind |-> "list", elems |-> S]
PyInt(n) == [kind |-> "int", elems |-> {Atom(n)}]

\* QID(iterable): None for no argument, else the frozenset of the elements
QID(x) == IF x.kind = "None" THEN PyNone ELSE PySet(x.elems)

\* iterable(obj): has a length (an int and None have none)
iterable(obj) == obj.kind \in {"QID", "list"}

\* asiterable(obj), as the set of the elements the iteration yields
asiterable(obj) ==
    IF iterable(obj) THEN obj.elems
    ELSE IF obj.kind = "None" THEN {NoneTok} ELSE obj.elems

\* truth value of a Python object: None and empty containers are false
Truthy(x) == x.kind = "int" \/ (x.kind # "None" /\ x.elems # {})

\* Python's (a or b)
PyOr(a, b) == IF Truthy(a) THEN a ELSE b

\* QID.union(self, x): frozenset.union(self, asiterable(x))
union(self, x) == PySet(self \cup asiterable(x))

(* -------------------------------------------------------------- operands *)
\* a plain number, or a reference to a live QuantityWithError
Num(n) == [isQ |-> FALSE, num |-> n, addr |-> 0]
Ref(p) == [isQ |-> TRUE, num |-> 0, addr |-> p]

\* the error argument of the constructor: None, or a number given by its square
NoErr == [given |-> FALSE, sq |-> Zero]
Err(sq) == [given |-> TRUE, sq |-> sq]

\* the confidence keyword: absent, or a percentage (0.99 is 99)
NoConf == [given |-> FALSE, pct |-> 0]
Conf(c) == [given |-> TRUE, pct |-> c]
DefaultConfidence == 99

\* a value that is not a number and has no value, error and qid attributes
\* (a string, None, a list): it stands outside the numbers of the model
NonNumeric == MaxVal + 1

\* _astuple with a conversion: what is not a number is replaced by 0
astupleCoerced(h, other) ==
    IF other.isQ
    THEN [val |-> h[other.addr].value,
          err |-> h[other.addr].variance,
          qid |-> PySet(h[other.addr].qid)]
    ELSE [val |-> IF other.num = NonNumeric THEN 0 ELSE other.num,
          err |-> Zero, qid |-> QID(PyNone)]

\* QuantityWithError._astuple(other): (value, error, qid)
astuple(h, other) ==
    IF other.isQ
    THEN [val |-> h[other.addr].value,
          err |-> h[other.addr].variance,
          qid |-> PySet(h[other.addr].qid)]
    ELSE [val |-> other.num, err |-> Zero, qid |-> QID(PyNone)]

\* QuantityWithError.__init__(self, value, error, qid, confidence=...):
\* the fields of the object built at address self
QuantityWithError(h, self, value, error, qid, conf) ==
    LET t == astuple(h, value)
        e == IF error.given THEN error.sq
             ELSE IF t.err # Zero THEN t.err
             ELSE Zero
        q1 == PyOr(qid, t.qid)
        q2 == IF q1.kind = "None" /\ e # Zero THEN PyInt(self) ELSE q1
        ids == {q \in asiterable(q2) : q # NoneTok}
    IN  [value |-> t.val,
         variance |-> e,
         qid |-> ids,
         covariance |-> {<<ids, e>>},
         confidence |-> IF conf.given THEN conf.pct ELSE DefaultConfidence]

\* the constructor call generated a token with id(self)
Minted(h, value, error, qid) ==
    LET t == astuple(h, value)
        e == IF error.given THEN error.sq
             ELSE IF t.err # Zero THEN t.err
             ELSE Zero
    IN  PyOr(qid, t.qid).kind = "None" /\ e # Zero

\* QuantityWithError.isSame(self, other)
isSame(h, self, other) ==
    IF other.isQ THEN h[self].qid = h[other.addr].qid ELSE FALSE

(* ------------------------------------------------------------- operators *)
\* The arguments each method passes to the constructor.  The object at
\* address self is the left operand.
Args(value, error, qid, conf) ==
    [value |-> Num(value), error |-> Err(error), qid |-> qid, conf |-> conf]

\* a _dist that adds the errors themselves
distLinear(x, y) == SqOfSum(x, y)

\* _dist(x, y)**2
dist(x, y) == RAdd(x, y)

\* __add__
add(h, self, other) ==
    LET t == astuple(h, other)
        s == h[self]
    IN  IF isSame(h, self, other)
        THEN Args(s.value + t.val, SqOfSum(s.variance, t.err), PySet(s.qid), NoConf)
        ELSE Args(s.value + t.val, dist(s.variance, t.err), union(s.qid, t.qid), NoConf)

\* __sub__
sub(h, self, other) ==
    LET t == astuple(h, other)
        s == h[self]
    IN  IF isSame(h, self, other)
        THEN Args(s.value - t.val, SqOfDiff(s.variance, t.err), PySet(s.qid), NoConf)
        ELSE Args(s.value - t.val, dist(s.variance, t.err), union(s.qid, t.qid), NoConf)

\* __mul__
mul(h, self, other) ==
    LET t == astuple(h, other)
        s == h[self]
    IN  IF isSame(h, self, other)
        THEN Args(s.value * t.val, RMul(s.variance, t.err), PySet(s.qid), NoConf)
        ELSE Args(s.value * t.val,
                  dist(RScale(s.variance, t.val * t.val, 1),
                       RScale(t.err, s.value * s.value, 1)),
                  union(s.qid, t.qid), NoConf)

\* __div__ (other's value is not 0 and divides self's value)
div(h, self, other) ==
    LET t == astuple(h, other)
        s == h[self]
        v2 == t.val * t.val
    IN  IF isSame(h, self, other)
        THEN Args(s.value \div t.val, Zero, PySet(s.qid), NoConf)
        ELSE Args(s.value \div t.val,
                  dist(RScale(s.variance, 1, v2),
                       RScale(t.err, s.value * s.value, v2 * v2)),
                  union(s.qid, t.qid), NoConf)

\* __neg__
neg(h, self) ==
    Args(-h[self].value, h[self].variance, PySet(h[self].qid), NoConf)

\* square of the error of __pow__ when isSame: |dx*f*(1+log(x))|, f = x**y
\* (for x > 0 and a finite dx # 0, x is 1: f = 1 and log(x) = 0)
PowSameErr(x, y, dx) ==
    IF x <= 0 \/ ~IsFinite(dx) THEN NonFinite
    ELSE IF dx = Zero THEN Zero
    ELSE dx

\* square of the error of __pow__ otherwise: _dist(dx*f*y/x, dy*f*log(x))
\* (for x > 0 the second term is 0: dy is 0 or x is 1)
PowErr(x, y, dx, dy) ==
    IF x <= 0 \/ ~IsFinite(dx) \/ ~IsFinite(dy) THEN NonFinite
    ELSE IF y = 0 THEN Zero
    ELSE LET c == y * IPow(x, y - 1) IN RScale(dx, c * c, 1)

\* the error of x**y is rational, nan or inf (log(x) drops out or x is 1)
PowExact(h, self, other) ==
    LET t == astuple(h, other)
        s == h[self]
    IN  /\ t.val >= 0
        /\ \/ s.value <= 0
           \/ s.value = 1
           \/ ~IsFinite(s.variance) \/ ~IsFinite(t.err)
           \/ IF isSame(h, self, other) THEN s.variance = Zero ELSE t.err = Zero

\* __pow__
pow(h, self, other) ==
    LET t == astuple(h, other)
        s == h[self]
        f == IPow(s.value, t.val)
    IN  IF isSame(h, self, other)
        THEN Args(f, PowSameErr(s.value, t.val, s.variance), PySet(s.qid), NoConf)
        ELSE Args(f, PowErr(s.value, t.val, s.variance, t.err),
                  PyList({SetTok(s.qid)} \cup
                         (IF t.qid.kind = "None" THEN {NoneTok}
                          ELSE {SetTok(t.qid.elems)})),
                  NoConf)

\* __abs__
abs(h, self) ==
    Args(Abs(h[self].value), h[self].variance, PySet(h[self].qid), NoConf)

\* a comparison that looks at the errors: equal values with different errors
\* do not compare equal
cmpWithError(h, self, other) ==
    LET t == astuple(h, other)
    IN  IF h[self].value < t.val THEN -1
        ELSE IF h[self].value > t.val THEN 1
        ELSE IF h[self].variance = t.err THEN 0 ELSE 1

\* __cmp__: cmp(self.value, val)
cmp(h, self, other) ==
    LET val == astuple(h, other).val
    IN  IF h[self].value < val THEN -1 ELSE IF h[self].value > val THEN 1 ELSE 0

\* copy
copy(h, self) ==
    [value |-> Num(h[self].value), error |-> Err(h[self].variance),
     qid |-> PyNone, conf |-> NoConf]

\* deepcopy
deepcopy(h, self) ==
    Args(h[self].value, h[self].variance, PySet(h[self].qid),
         Conf(h[self].confidence))

(* ----------------------------------------------------------------- state *)
\* inputs of the calls
ValueInputs == {-1, 2}
ErrorInputs == {NoErr, Err(Zero), Err(<<1, 1>>)}
ConfInputs == {NoConf, Conf(95)}
\* the confidence keyword is given in calls with a plain number and no qid
ConfInputsFor(value, qid) ==
    IF value.isQ \/ qid.kind # "None" THEN {NoConf} ELSE ConfInputs
QidInputs(h) == {PyNone, PySet({})} \cup {PySet(h[p].qid) : p \in DOMAIN h}
Operands(h) == {Num(n) : n \in ValueInputs} \cup {Ref(p) : p \in DOMAIN h}

\* the numbers of a quantity are within the bounds of the model
Representable(q) ==
    /\ Abs(q.value) <= MaxVal
    /\ IsFinite(q.variance) => q.variance[1] <= MaxVar /\ q.variance[2] <= MaxVar

\* an operator that works in place: self is overwritten with the result
AllocInPlace(h, self, r, q) ==
    [p \in DOMAIN h \cup {r} |-> IF p = r \/ p = self THEN q ELSE h[p]]

\* the heap after the object q was built at the free address r; the call
\* was a method of the object at self (0: a plain constructor call)
Alloc(h, self, r, q) == [p \in DOMAIN h \cup {r} |-> IF p = r THEN q ELSE h[p]]

\* The addresses a new object can get.  An address that served as a token
\* may be handed out again once its object is gone.  Addresses that never
\* served as a token differ in name only: the lowest stands for all of them.
Unused(h, g) == Addr \ (DOMAIN h \cup g)
FreeAddrs(h, g) ==
    (g \ DOMAIN h) \cup {p \in Unused(h, g) : \A x \in Unused(h, g) : p <= x}

\* the last call: the method, the address of self (0: none), the other
\* operand, the qid argument (constructor), the address of the object built
\* (0: none), whether id(self) was taken as a token, the value returned
NoCall == [op |-> "none", a |-> 0, b |-> Num(0), r |-> 0,
           qid |-> PyNone, minted |-> FALSE, out |-> 0]

Init ==
    /\ heap = [p \in {} |-> 0]
    /\ generated = {}
    /\ last = NoCall
    /\ steps = 0

\* a call of the constructor with arguments c builds the object at r
Build(op, self, other, c, r) ==
    LET q == QuantityWithError(heap, r, c.value, c.error, c.qid, c.conf)
        m == Minted(heap, c.value, c.error, c.qid)
    IN  /\ r \in FreeAddrs(heap, generated)
        /\ heap' = Alloc(heap, self, r, q)
        /\ generated' = IF m THEN generated \cup {r} ELSE generated
        /\ last' = [op |-> op, a |-> self, b |-> other, r |-> r,
                    qid |-> c.qid, minted |-> m, out |-> 0]
        /\ steps' = steps + 1

\* ... and its numbers are within the bounds of the model
New(op, self, other, c, r) ==
    /\ Representable(QuantityWithError(heap, r, c.value, c.error, c.qid, c.conf))
    /\ Build(op, self, other, c, r)

\* QuantityWithError(value, error, qid, confidence=conf)
Construct ==
    /\ steps < MaxSteps
    /\ \E value \in Operands(heap), error \in ErrorInputs,
       qid \in QidInputs(heap), r \in Addr :
        \E conf \in ConfInputsFor(value, qid) :
            New("init", 0, value,
                [value |-> value, error |-> error, qid |-> qid, conf |-> conf], r)

\* the square of |e1 + e2| and of |e1 - e2| is rational
LinearExact(h, self, other) ==
    isSame(h, self, other) => HasRoot(RMul(h[self].variance, astuple(h, other).err))

Add ==
    /\ steps < MaxSteps
    /\ \E self \in DOMAIN heap, other \in Operands(heap), r \in Addr :
        /\ LinearExact(heap, self, other)
        /\ New("add", self, other, add(heap, self, other), r)

Sub ==
    /\ steps < MaxSteps
    /\ \E self \in DOMAIN heap, other \in Operands(heap), r \in Addr :
        /\ LinearExact(heap, self, other)
        /\ New("sub", self, other, sub(heap, self, other), r)

Mul ==
    /\ steps < MaxSteps
    /\ \E self \in DOMAIN heap, other \in Operands(heap), r \in Addr :
        New("mul", self, other, mul(heap, self, other), r)

\* a zero divisor raises ZeroDivisionError: no object is built
Div ==
    /\ steps < MaxSteps
    /\ \E self \in DOMAIN heap, other \in Operands(heap), r \in Addr :
        /\ astuple(heap, other).val # 0
        /\ Abs(heap[self].value) % Abs(astuple(heap, other).val) = 0
        /\ New("div", self, other, div(heap, self, other), r)

Neg ==
    /\ steps < MaxSteps
    /\ \E self \in DOMAIN heap, r \in Addr :
        New("neg", self, Num(0), neg(heap, self), r)

Pow ==
    /\ steps < MaxSteps
    /\ \E self \in DOMAIN heap, other \in Operands(heap), r \in Addr :
        /\ PowExact(heap, self, other)
        /\ New("pow", self, other, pow(heap, self, other), r)

AbsOp ==
    /\ steps < MaxSteps
    /\ \E self \in DOMAIN heap, r \in Addr :
        New("abs", self, Num(0), abs(heap, self), r)

Copy ==
    /\ steps < MaxSteps
    /\ \E self \in DOMAIN heap, r \in Addr :
        New("copy", self, Num(0), copy(heap, self), r)

Deepcopy ==
    /\ steps < MaxSteps
    /\ \E self \in DOMAIN heap, r \in Addr :
        New("deepcopy", self, Num(0), deepcopy(heap, self), r)

\* a call that builds nothing and returns out
Query(op, self, other, out) ==
    /\ last' = [NoCall EXCEPT !.op = op, !.a = self, !.b = other, !.out = out]
    /\ steps' = steps + 1
    /\ UNCHANGED <<heap, generated>>

Cmp ==
    /\ steps < MaxSteps
    /\ \E self \in DOMAIN heap, other \in Operands(heap) :
        Query("cmp", self, other, cmp(heap, self, other))

IsSame ==
    /\ steps < MaxSteps
    /\ \E self \in DOMAIN heap, other \in Operands(heap) :
        Query("isSame", self, other, IF isSame(heap, self, other) THEN 1 ELSE 0)

\* the last reference to an object is dropped: its address is free again
Discard ==
    \E p \in DOMAIN heap :
        /\ heap' = [x \in DOMAIN heap \ {p} |-> heap[x]]
        /\ last' = NoCall
        /\ UNCHANGED <<generated, steps>>

Next ==
    \/ Construct
    \/ Add
    \/ Sub
    \/ Mul
    \/ Div
    \/ Neg
    \/ Pow
    \/ AbsOp
    \/ Copy
    \/ Deepcopy
    \/ Cmp
    \/ IsSame
    \/ Discard

Spec == Init /\ [][Next]_vars

(* ------------------------------------------- the mean of three measurements *)
\* The session of the module docstring: three measurements are constructed,
\* added up and divided by 3.  steps is the position in the session.
MeanValues == {1, 2}
MeanErrors == {Zero, <<1, 1>>, <<4, 1>>}

\* a = QuantityWithError(v, e), and the same for a2 and a3
MeanConstruct ==
    /\ steps < 3
    /\ \E v \in MeanValues, e \in MeanErrors, r \in Addr :
        New("init", 0, Num(v),
            [value |-> Num(v), error |-> Err(e), qid |-> PyNone, conf |-> NoConf], r)

\* s = a + a2, for two of the three measurements
MeanAdd ==
    /\ steps = 3
    /\ \E a \in DOMAIN heap, a2 \in DOMAIN heap, r \in Addr :
        /\ a < a2
        /\ LinearExact(heap, a, Ref(a2))
        /\ New("add", a, Ref(a2), add(heap, a, Ref(a2)), r)

\* t = s + a3, for the third measurement
MeanAddThird ==
    /\ steps = 4
    /\ \E a3 \in DOMAIN heap \ {last.a, last.b.addr, last.r}, r \in Addr :
        /\ LinearExact(heap, last.r, Ref(a3))
        /\ New("add", last.r, Ref(a3), add(heap, last.r, Ref(a3)), r)

\* t / 3
MeanDiv ==
    /\ steps = 5
    /\ heap[last.r].value % 3 = 0
    /\ \E r \in Addr : New("div", last.r, Num(3), div(heap, last.r, Num(3)), r)

NextMean ==
    \/ MeanConstruct
    \/ MeanAdd
    \/ MeanAddThird
    \/ MeanDiv

SpecMean == Init /\ [][NextMean]_vars

(* ------------------------------------------------- values of any type *)
\* The constructor is called with a number, a quantity or an object that is
\* not a number; a quantity that holds such an object may be absorbed in turn.
AnyOperands(h) == Operands(h) \cup {Num(NonNumeric)}

ConstructAny ==
    /\ steps < MaxSteps
    /\ \E value \in AnyOperands(heap), error \in ErrorInputs,
       qid \in QidInputs(heap), r \in Addr :
        Build("init", 0, value,
              [value |-> value, error |-> error, qid |-> qid, conf |-> NoConf], r)

NextAny ==
    \/ ConstructAny
    \/ Discard

SpecAny == Init /\ [][NextAny]_vars

(* ================================================================ claims *)
\* the objects of the last call: the one it built, self, and the other operand
Result == heap[last.r]
Self == heap[last.a]
Other == heap[last.b.addr]

BinaryOps == {"add", "sub", "mul", "div", "pow"}
UnaryOps == {"neg", "abs"}

\* the last call was a binary operator that took the same-identity branch
SameBranch == last.op \in BinaryOps /\ isSame(heap, last.a, last.b)
\* ... that took the independent branch
IndependentBranch == last.op \in BinaryOps /\ ~isSame(heap, last.a, last.b)

\* the identity the other operand contributes: empty for a plain number
OtherIdentity == IF last.b.isQ THEN Other.qid ELSE {}

\* C1: every token the constructor generates with id(self) differs from every
\* token generated before it, also from those of objects that are gone.
C1_TokensDistinct == [][last'.minted => last'.r \notin generated]_vars

\* C2: in the independent branch of + - * / ** the identity of the result is
\* the union of the operands' identities (a plain number contributes none),
\* and for a + b with distinct identities its size is the sum of their sizes.
C2_IndependentUnion ==
    IndependentBranch =>
        /\ Result.qid = Self.qid \cup OtherIdentity
        /\ (last.op = "add" /\ last.b.isQ) =>
               Cardinality(Result.qid) = Cardinality(Self.qid) + Cardinality(Other.qid)

\* C3: in the same-identity branch of + - * / ** the identity of the result
\* is exactly the identity of self.
C3_SameIdentityKept == SameBranch => Result.qid = Self.qid

\* C4: the constructor takes the identity from the qid argument when one is
\* given; else from an absorbed quantity; else a new token when the error is
\* not zero; else the identity is empty.
C4_IdentityResolution ==
    last.op = "init" =>
        Result.qid = IF last.qid.kind # "None" THEN last.qid.elems
                     ELSE IF last.b.isQ THEN Other.qid
                     ELSE IF Result.variance # Zero THEN {Atom(last.r)}
                     ELSE {}

\* C5: a.copy() has the value and the error of a and is not the same as a
\* (stated for every a with a nonzero error).
C5_CopyIndependent ==
    (last.op = "copy" /\ Self.variance # Zero) =>
        /\ Result.value = Self.value
        /\ Result.variance = Self.variance
        /\ ~isSame(heap, last.r, Ref(last.a))

\* C6: a.deepcopy() has the value, error, identity and confidence of a, and
\* is the same as a.
C6_DeepcopyClone ==
    last.op = "deepcopy" =>
        /\ Result.value = Self.value
        /\ Result.variance = Self.variance
        /\ Result.qid = Self.qid
        /\ Result.confidence = Self.confidence
        /\ isSame(heap, last.r, Ref(last.a))

\* C7: a quantity derived from a with a itself and plain numbers only is the
\* same as a (stated for one step: -a, abs(a), a op n and a op a).
C7_DerivedIsSame ==
    \/ last.op \in UnaryOps
    \/ last.op \in BinaryOps /\ (~last.b.isQ \/ last.b.addr = last.a)
    => isSame(heap, last.a, Ref(last.r))

\* r = (sqrt(x) + sqrt(y))**2, without taking a root
IsSqOfSum(r, x, y) ==
    LET d == RAdd(r, <<-RAdd(x, y)[1], RAdd(x, y)[2]>>)
    IN  d[1] >= 0 /\ RMul(d, d) = RScale(RMul(x, y), 4, 1)

\* r = (sqrt(x) - sqrt(y))**2, without taking a root
IsSqOfDiff(r, x, y) ==
    LET d == RAdd(r, <<-RAdd(x, y)[1], RAdd(x, y)[2]>>)
    IN  d[1] <= 0 /\ RMul(d, d) = RScale(RMul(x, y), 4, 1) /\ r[1] >= 0

\* the errors of a same-identity sum, difference and quotient
LinearErrors ==
    /\ last.op = "add" => IsSqOfSum(Result.variance, Self.variance, Other.variance)
    /\ last.op = "sub" => IsSqOfDiff(Result.variance, Self.variance, Other.variance)
    /\ last.op = "div" => Result.variance = Zero
    /\ (last.op = "add" /\ last.b.addr = last.a) =>
           /\ Result.value = 2 * Self.value
           /\ Result.variance = RScale(Self.variance, 4, 1)
    /\ (last.op = "sub" /\ last.b.addr = last.a) =>
           Result.value = 0 /\ Result.variance = Zero
    /\ (last.op = "div" /\ last.b.addr = last.a) =>
           Result.value = 1 /\ Result.variance = Zero

Measurements == {p \in DOMAIN heap : heap[p].qid = {Atom(p)}}

FrameOps == BinaryOps \cup UnaryOps \cup {"cmp", "isSame", "copy", "deepcopy"}

\* C10: no arithmetic operator, comparison, isSame, copy or deepcopy changes
\* a field of an existing quantity, and each arithmetic and copy operation
\* returns a new quantity.
C10_Frame ==
    [][last'.op \in FrameOps =>
         /\ \A p \in DOMAIN heap : p \in DOMAIN heap' /\ heap'[p] = heap[p]
         /\ last'.op \notin {"cmp", "isSame"} =>
                last'.r \notin DOMAIN heap /\ last'.r \in DOMAIN heap']_vars

\* a * b was called for two quantities and built a third one
C10_Witness ==
    /\ last.op = "mul" /\ last.b.isQ /\ last.b.addr # last.a
    /\ last.r \notin {last.a, last.b.addr}
    /\ Result.value = Self.value * Other.value

\* C11: -a has the value -a.value and abs(a) the value |a.value|; both have
\* the error and exactly the identity of a, and are the same as a.
C11_UnaryPreserves ==
    last.op \in UnaryOps =>
        /\ Result.value = IF last.op = "neg" THEN -Self.value ELSE Abs(Self.value)
        /\ Result.variance = Self.variance
        /\ Result.qid = Self.qid
        /\ isSame(heap, last.r, Ref(last.a))

\* the last call was the constructor, for a value that is not a number
NonNumericCall == last.op = "init" /\ ~last.b.isQ /\ last.b.num = NonNumeric

\* C12, as stated: the constructor called with a value that is neither a
\* number nor a quantity fails, and no quantity is produced.
C12_NonNumericRejected == NonNumericCall => last.r \notin DOMAIN heap

\* C12, amended: the constructor called with a value that is neither a number
\* nor a quantity does not fail; it produces a quantity that holds the value
\* unchanged, and the identity is resolved as for a number.
C12_NonNumericStored ==
    NonNumericCall =>
        /\ last.r \in DOMAIN heap
        /\ Result.value = last.b.num
        /\ last.qid.kind = "None" =>
               Result.qid = IF Result.variance # Zero THEN {Atom(last.r)} ELSE {}

\* QuantityWithError('abc', 1) was called and built a quantity with an error
C12_Witness ==
    /\ NonNumericCall
    /\ last.r \in DOMAIN heap
    /\ Result.value = NonNumeric
    /\ Result.variance = <<1, 1>>
    /\ last.minted

\* C13: the three-way comparison of two quantities is the comparison of their
\* values: -1, 0 or 1 as a.value is below, equal to or above b.value, whatever
\* their errors, identities and confidence levels.
C13_CmpValuesOnly ==
    (last.op = "cmp" /\ last.b.isQ) =>
        /\ last.out = -1 <=> Self.value < Other.value
        /\ last.out = 0 <=> Self.value = Other.value
        /\ last.out = 1 <=> Self.value > Other.value

\* two quantities with equal values and different errors, identities and
\* confidence levels were compared, and compared equal
C13_Witness ==
    /\ last.op = "cmp" /\ last.b.isQ /\ last.b.addr # last.a
    /\ Self.value = Other.value
    /\ Self.variance # Other.variance
    /\ Self.qid # Other.qid
    /\ Self.confidence # Other.confidence
    /\ last.out = 0

\* C14: every quantity that constructor calls, arithmetic operators and copy
\* operations can produce has a non-empty identity if its error is not zero.
C14_ErrorHasIdentity ==
    \A p \in DOMAIN heap : heap[p].variance # Zero => heap[p].qid # {}

====
